---- MODULE Spec2Model ----
(***************************************************************************)
(* A model of neurareview's review core:                                   *)
(*   - the agentic decision loop (src/src/agentic_reviewer.py),            *)
(*   - the placement of findings on a hunk (src/src/ai_reviewer.py),       *)
(*   - the publication of a review (src/src/github_client.py),             *)
(*   - a review run over the files (src/src/neura_review.py),              *)
(*   - the comment manager (src/src/comment_manager.py),                   *)
(*   - the hunk parser (src/src/diff_parser.py),                           *)
(*   - the context cache over sessions (src/src/context_tool.py).          *)
(* Each part has its own specification over the variables it uses; the     *)
(* variables of the other parts stay at their idle values.                 *)
(***************************************************************************)
EXTENDS Integers, Sequences, FiniteSets, TLC

\* ------------------------------------------------------------------ bounds
\* The largest max_iterations the loop is constructed with.
MaxIterations == 2
\* The largest max_context_calls_per_iteration the loop is constructed with.
MaxContextCalls == 2
\* The longest invocation list of one model response.
MaxCalls == 3
\* Lines of one hunk.
MaxHunkLines == 3
\* Target line numbers of one issue record.
MaxTargets == 2
\* Comments handed to the GitHub client in one call.
MaxComments == 2
\* Reviewable files of one pull request.
MaxFiles == 2
\* Hunks of one file.
MaxHunks == 3
\* Target line numbers of the record handed to the resolver alone, and the
\* numbers handed to longest_consecutive_range.
MaxRunTargets == 4
\* Comments handed to the comment manager in one call.
MaxListed == 3
\* The largest max_per_file the comment manager is called with.
MaxCap == 2
\* analyze_file calls made on one AgenticReviewer.
MaxSessions == 2
\* Lines of one suggestion.
MaxSuggestionLines == 3
\* The widest leading whitespace of a suggestion line and of the reference line.
MaxIndent == 2

\* Python's None for an optional line number.
None == -1

\* ------------------------------------------------------------------ state
VARIABLES
    pc,                 \* position of analyze_file: Gathering, ToolCall, Done, FallbackDone
    max_iterations,     \* AgenticReviewer.max_iterations
    max_context_calls_per_iteration,
    iteration,          \* the loop counter
    messages,           \* the running conversation
    context_history,    \* the context log
    available_functions,\* names offered to the responder in this iteration
    response,           \* the latest AIResponse
    idx,                \* position of the for loop in response.function_calls
    context_calls_this_iteration,
    final_analysis,     \* the finalize payload picked up by the for loop
    outcome,            \* the ReviewAnalysis returned
    sent,               \* the conversation handed to the latest generate_response
    model_calls,        \* number of generate_response invocations
    raised,             \* generate_response raised
    last_handler,       \* what the handler of the latest executed tool call did
    finalize_seen,      \* some response so far held a finalize invocation
    \* _process_ai_response on one hunk
    hunk,               \* the DiffHunk's lines
    ai_response,        \* the issue records of the model's answer
    issues,             \* the ReviewIssue list returned
    comments,           \* the ReviewComment list returned
    processed,          \* _process_ai_response has returned
    matched,            \* the diff_lines found for a record's target lines
    line_numbers,       \* the argument of longest_consecutive_range
    best_range,         \* what longest_consecutive_range returned
    \* GitHubClient.post_review / post_single_comment
    review_comments,    \* the comment list handed to the client
    overall_comment,    \* the review body is not empty
    called,             \* the operation invoked
    submitted,          \* the comments handed to the GitHub API
    issue_comment,      \* the body was posted as a standalone issue comment
    returned,           \* the value returned
    github_raised,      \* a call of the GitHub API raised GithubException
    \* NeuraReview.review_pull_request
    run_pc,             \* position of the run: start, analyzing, posting, done
    pr_files,           \* per reviewable file, the model's answer for each hunk
    file_status,        \* per file: waiting, running, finished
    hunk_status,        \* per file and hunk: pending, in_flight, done
    permits,            \* the value of the semaphore
    analyses,           \* the list analyze_one appends to
    dry_run,            \* the dry_run argument
    run_result,         \* what review_pull_request returned
    \* CommentManager.deduplicate_comments / limit_comments_per_file
    comment_list,       \* the comment list handed to the manager
    hash_seed,          \* hash() of this process, per comment body
    cap,                \* the max_per_file argument
    prepared,           \* the list the latest operation returned
    applied,            \* the operations applied so far, in order
    \* the suggestion block of _create_comment_from_diff_lines
    issue_suggestion,   \* issue.suggestion, as lines
    ref_indent,         \* the leading whitespace of ref_line.content
    suggestion_block,   \* the lines placed in the suggestion block
    \* DiffParser._parse_hunk
    patch,              \* the unidiff hunk handed to the parser
    \* one AgenticReviewer and its ContextTool over several analyze_file calls
    _file_cache,        \* ContextTool._file_cache
    sessions,           \* analyze_file calls started so far
    session_open,       \* an analyze_file call is running
    session_log,        \* context_history of the running call
    last_read           \* what the latest get_file_content did

loopVars == <<pc, max_iterations, max_context_calls_per_iteration, iteration,
              messages, context_history, available_functions, response, idx,
              context_calls_this_iteration, final_analysis, outcome, sent,
              model_calls, raised, last_handler, finalize_seen>>

placementVars == <<hunk, ai_response, issues, comments, processed, matched,
                   line_numbers, best_range>>

publishVars == <<review_comments, overall_comment, called, submitted,
                 issue_comment, returned, github_raised>>

runVars == <<run_pc, pr_files, file_status, hunk_status, permits, analyses,
             dry_run, run_result>>

managerVars == <<comment_list, hash_seed, cap, prepared, applied>>

suggestionVars == <<issue_suggestion, ref_indent, suggestion_block>>

sessionVars == <<_file_cache, sessions, session_open, session_log, last_read>>

auxVars == <<managerVars, suggestionVars, patch, sessionVars>>

vars == <<loopVars, placementVars, publishVars, runVars, auxVars>>

\* --------------------------------------------------- tool vocabulary
ContextTools == {"get_file_content", "search_codebase", "find_function_definition",
                 "find_class_definition", "find_import_usages", "find_test_files"}

get_context_tool_schemas == ContextTools

get_review_analysis_schema == "create_review_analysis"

\* ----------------------------------------------------- records
\* The result dictionaries of the context tools: success plus the kind of
\* error text ("none" on success).
ResultOk == [success |-> TRUE, error |-> "none"]
\* {"success": False, "error": <text>}: what a handler returns on a failure of
\* its own and what _execute_context_call makes of an exception, str(e).
ResultFailure == [success |-> FALSE, error |-> "error_text"]
ResultUnknown == [success |-> FALSE, error |-> "unknown_function"]
\* An exception that leaves _execute_context_call.
Propagated == [success |-> FALSE, error |-> "propagated"]
NoResult == [success |-> FALSE, error |-> "n/a"]

\* What a handler of the context tool does when called.
HandlerBehaviours == {"returns_success", "returns_failure", "raises"}

\* An argument dictionary. For create_review_analysis it is the payload:
\* empty (no key at all), iterable (its "issues" value can be iterated) and
\* the issue records.
ToolArgs == [empty |-> FALSE, iterable |-> TRUE, issues |-> <<>>]

IssueA == [title |-> "t1", severity |-> "high", change_type |-> "bug",
           target_lines |-> <<2, 3>>, side |-> "RIGHT"]

PayloadEmpty == [empty |-> TRUE, iterable |-> TRUE, issues |-> <<>>]
PayloadNullIssues == [empty |-> FALSE, iterable |-> FALSE, issues |-> <<>>]
PayloadOneIssue == [empty |-> FALSE, iterable |-> TRUE, issues |-> <<IssueA>>]
LoopPayloads == {PayloadEmpty, PayloadNullIssues, PayloadOneIssue}

NoOutcome == [kind |-> "none", issues |-> <<>>, comments |-> <<>>, confidence |-> 0]
NoResponse == [content |-> FALSE, function_calls |-> <<>>]
NoHunk == [old_start |-> 1, new_start |-> 1, lines |-> <<>>]

\* ----------------------------------------------------- enumerations
ReviewSeverity == {"critical", "high", "medium", "low", "info"}
ChangeType == {"bug", "performance", "security", "memory", "error_handling"}

Min(S) == CHOOSE x \in S : \A y \in S : x <= y
Max(S) == CHOOSE x \in S : \A y \in S : x >= y
Range(s) == {s[i] : i \in 1..Len(s)}

\* ------------------------------------------------ the model responder
\* The names the responder puts in its invocations: a context tool, a name
\* no handler exists for, and the finalize capability.
ResponderToolNames == {"get_file_content", "no_such_tool"}

ToolInvocations == {[name |-> n, arguments |-> ToolArgs] : n \in ResponderToolNames}

FinalizeInvocations ==
    {[name |-> get_review_analysis_schema, arguments |-> p] : p \in LoopPayloads}

SeqsUpTo(S, n) == UNION {[1..k -> S] : k \in 0..n}

IsFinalize(fc) == fc.name = "create_review_analysis"

FinalizePositions(calls) == {i \in 1..Len(calls) : IsFinalize(calls[i])}

\* The invocation lists of a response that has some: tool invocations in any
\* order, at most one finalize invocation at any position, at most one tool
\* invocation behind it.
InvocationLists ==
    {s \in SeqsUpTo(ToolInvocations \cup FinalizeInvocations, MaxCalls) :
        /\ Len(s) >= 1
        /\ Cardinality(FinalizePositions(s)) <= 1
        /\ \A i \in FinalizePositions(s) : Len(s) <= i + 1}

\* ------------------------------------------------ messages
Message(role, kind, tool, result) ==
    [role |-> role, kind |-> kind, tool |-> tool, result |-> result]

SystemMessage == Message("system", "system_prompt", "", NoResult)
InitialPrompt == Message("user", "initial_prompt", "", NoResult)
AssistantText == Message("assistant", "content", "", NoResult)
SteerNoCalls == Message("user", "steer_no_calls", "", NoResult)
SteerNoContext == Message("user", "steer_no_context", "", NoResult)
CallMessage(fc) == Message("assistant", "call", fc.name, NoResult)
ResultMessage(fc, result) == Message("user", "result", fc.name, result)

IsSteering(m) == m.kind \in {"steer_no_calls", "steer_no_context"}

\* ------------------------------------------------ analyze_file, pieces
\* The while condition letting one iteration too many through.
LoopCondition_OffByOne == iteration <= max_iterations

\* The while condition stopping one iteration short.
LoopCondition_StopsEarly == iteration < max_iterations - 1

\* while iteration < self.max_iterations
LoopCondition == iteration < max_iterations

\* the functions offered in iteration it
AvailableFunctions(it) ==
    IF it > 1 THEN get_context_tool_schemas \cup {get_review_analysis_schema}
    ELSE get_context_tool_schemas

\* The cap test with > for >=.
CapReached_OffByOne(calls) == calls > max_context_calls_per_iteration

\* if context_calls_this_iteration >= self.max_context_calls_per_iteration
CapReached(calls) == calls >= max_context_calls_per_iteration

\* The truth value Python gives the payload dictionary in "if final_analysis".
Truthy(fa) == fa.set /\ ~fa.data.empty

NoFinal == [set |-> FALSE, data |-> PayloadEmpty]

\* An except clause that goes on with the next iteration.
ExceptionHandler_Continue == "continue"

\* What the except clause around one iteration does.
ExceptionHandler == "break"

\* The dispatch without its try/except: an exception of a handler leaves it.
_execute_context_call_Unguarded(name, behaviour) ==
    IF name \in {"get_file_content", "search_codebase", "find_function_definition",
                 "find_class_definition", "find_import_usages", "find_test_files"}
    THEN CASE behaviour = "returns_success" -> ResultOk
           [] behaviour = "returns_failure" -> ResultFailure
           [] OTHER -> Propagated
    ELSE ResultUnknown

\* _execute_context_call: dispatch by name, every exception of a handler
\* converted to a failure dictionary.
_execute_context_call(name, behaviour) ==
    IF name \in {"get_file_content", "search_codebase", "find_function_definition",
                 "find_class_definition", "find_import_usages", "find_test_files"}
    THEN CASE behaviour = "returns_success" -> ResultOk
           [] behaviour = "returns_failure" -> ResultFailure
           [] OTHER -> ResultFailure
    ELSE ResultUnknown

\* _create_fallback_analysis
_create_fallback_analysis(history) ==
    [kind |-> "fallback", issues |-> <<>>, comments |-> <<>>, confidence |-> 50]

\* _create_comment_from_issue, with start_side set whether or not the issue
\* has a start_line.
_create_comment_from_issue_StartSideAlways(issue) ==
    [path |-> "file", title |-> issue.title, line |-> issue.line,
     start_line |-> issue.start_line, side |-> issue.ai_side,
     start_side |-> issue.ai_side, severity |-> issue.severity]

\* _create_comment_from_issue
_create_comment_from_issue(issue) ==
    [path |-> "file", title |-> issue.title, line |-> issue.line,
     start_line |-> issue.start_line, side |-> issue.ai_side,
     start_side |-> IF issue.start_line # None THEN issue.ai_side ELSE "none",
     severity |-> issue.severity]

\* One issue record of a finalize payload is usable: the enum conversions and
\* the required keys do not raise.
AgenticRecordValid(d) ==
    /\ d.severity \in ReviewSeverity
    /\ d.change_type \in ChangeType
    /\ d.title # "missing"

AgenticIssue(d) ==
    LET first_line == Min(Range(d.target_lines))
        last_line == Max(Range(d.target_lines))
    IN [title |-> d.title, severity |-> d.severity, change_type |-> d.change_type,
        line |-> last_line,
        start_line |-> IF first_line # last_line THEN first_line ELSE None,
        ai_side |-> IF d.side = "missing" THEN "RIGHT" ELSE d.side]

\* The loop over the records, left at the first record without target lines.
RECURSIVE AgenticIssues_StopsAtEmpty(_)
AgenticIssues_StopsAtEmpty(records) ==
    IF records = <<>> THEN <<>>
    ELSE IF Head(records).target_lines = <<>> THEN <<>>
    ELSE IF AgenticRecordValid(Head(records))
    THEN <<AgenticIssue(Head(records))>> \o AgenticIssues_StopsAtEmpty(Tail(records))
    ELSE AgenticIssues_StopsAtEmpty(Tail(records))

\* The loop over the records of a finalize payload.
RECURSIVE AgenticIssues(_)
AgenticIssues(records) ==
    IF records = <<>> THEN <<>>
    ELSE LET d == Head(records)
             rest == AgenticIssues(Tail(records))
         IN IF AgenticRecordValid(d) /\ d.target_lines # <<>>
            THEN <<AgenticIssue(d)>> \o rest
            ELSE rest

\* _create_review_analysis_from_response
_create_review_analysis_from_response(analysis_data, history) ==
    IF ~analysis_data.iterable THEN _create_fallback_analysis(history)
    ELSE LET built == AgenticIssues(analysis_data.issues)
         IN [kind |-> "finalized", issues |-> built,
             comments |-> [i \in 1..Len(built) |-> _create_comment_from_issue(built[i])],
             confidence |-> 95]

\* ------------------------------------------------ analyze_file, steps
\* review_pull_request is not running.
RunIdle ==
    /\ run_pc = "idle"
    /\ pr_files = <<>>
    /\ file_status = <<>>
    /\ hunk_status = <<>>
    /\ permits = 0
    /\ analyses = <<>>
    /\ dry_run = FALSE
    /\ run_result = "none"

\* Neither the comment manager, the suggestion formatter, the parser nor a
\* second analyze_file call is at work.
NoRead == [key |-> "none", hit |-> FALSE, cached_in |-> 0]

\* No suggestion block has been composed.
NoBlock == [state |-> "none", lines |-> <<>>]

SuggestionIdle ==
    /\ issue_suggestion = <<>>
    /\ ref_indent = 0
    /\ suggestion_block = NoBlock

SessionIdle ==
    /\ _file_cache = <<>>
    /\ sessions = 0
    /\ session_open = FALSE
    /\ session_log = <<>>
    /\ last_read = NoRead

ManagerIdle ==
    /\ comment_list = <<>>
    /\ cap = 0
    /\ prepared = <<>>
    /\ applied = <<>>

NoPatch == [kinds |-> <<>>, source_start |-> 0, target_start |-> 0]

AuxIdle ==
    /\ ManagerIdle
    /\ hash_seed = <<>>
    /\ SuggestionIdle
    /\ patch = NoPatch
    /\ SessionIdle

PlacementIdle ==
    /\ hunk = NoHunk
    /\ ai_response = <<>>
    /\ issues = <<>>
    /\ comments = <<>>
    /\ processed = FALSE
    /\ matched = <<>>
    /\ line_numbers = <<>>
    /\ best_range = <<>>

PublishIdle ==
    /\ review_comments = <<>>
    /\ overall_comment = FALSE
    /\ called = "none"
    /\ submitted = <<>>
    /\ issue_comment = FALSE
    /\ returned = "none"
    /\ github_raised = FALSE

\* The state after __init__ and the first lines of analyze_file.
Init ==
    /\ PlacementIdle
    /\ PublishIdle
    /\ RunIdle
    /\ AuxIdle
    /\ max_iterations \in 1..MaxIterations
    /\ max_context_calls_per_iteration \in 1..MaxContextCalls
    /\ pc = "Gathering"
    /\ iteration = 0
    /\ messages = <<SystemMessage, InitialPrompt>>
    /\ context_history = <<>>
    /\ available_functions = {}
    /\ response = NoResponse
    /\ idx = 0
    /\ context_calls_this_iteration = 0
    /\ final_analysis = NoFinal
    /\ outcome = NoOutcome
    /\ sent = <<>>
    /\ model_calls = 0
    /\ raised = FALSE
    /\ last_handler = "none"
    /\ finalize_seen = FALSE

\* The head of one iteration, up to the call of generate_response.
Invoke ==
    /\ pc = "Gathering"
    /\ LoopCondition
    /\ iteration' = iteration + 1
    /\ available_functions' = AvailableFunctions(iteration + 1)
    /\ sent' = messages
    /\ model_calls' = model_calls + 1
    /\ UNCHANGED <<max_iterations, max_context_calls_per_iteration,
                   placementVars, publishVars, runVars, auxVars>>

\* The statements after the for loop: return the finalized outcome, or steer
\* when nothing was executed, and go to the next iteration.
AfterLoop(fa, calls, msgs, history) ==
    IF Truthy(fa)
    THEN /\ pc' = "Done"
         /\ outcome' = _create_review_analysis_from_response(fa.data, history)
         /\ messages' = msgs
    ELSE /\ pc' = "Gathering"
         /\ outcome' = outcome
         /\ messages' = IF calls = 0 THEN Append(msgs, SteerNoContext) ELSE msgs

\* The except clause of the iteration, then the code after the while loop.
Except ==
    IF ExceptionHandler = "break"
    THEN /\ pc' = "FallbackDone"
         /\ outcome' = _create_fallback_analysis(context_history)
    ELSE /\ pc' = "Gathering"
         /\ outcome' = outcome

\* generate_response raises.
ModelRaises ==
    /\ Invoke
    /\ raised' = TRUE
    /\ Except
    /\ UNCHANGED <<messages, context_history, response, idx,
                   context_calls_this_iteration, final_analysis, last_handler,
                   finalize_seen>>

\* generate_response answers without any invocation, with or without text.
ModelRepliesWithoutCalls ==
    /\ Invoke
    /\ \E content \in BOOLEAN :
        /\ response' = [content |-> content, function_calls |-> <<>>]
        /\ messages' = IF content
                       THEN messages \o <<AssistantText, SteerNoCalls>>
                       ELSE messages
    /\ pc' = "Gathering"
    /\ UNCHANGED <<context_history, idx, context_calls_this_iteration,
                   final_analysis, outcome, raised, last_handler, finalize_seen>>

\* generate_response answers with invocations: the for loop starts.
ModelRepliesWithCalls ==
    /\ Invoke
    /\ \E calls \in InvocationLists :
        /\ response' = [content |-> FALSE, function_calls |-> calls]
        /\ finalize_seen' = (finalize_seen \/ FinalizePositions(calls) # {})
    /\ final_analysis' = NoFinal
    /\ context_calls_this_iteration' = 0
    /\ idx' = 1
    /\ pc' = "ToolCall"
    /\ UNCHANGED <<messages, context_history, outcome, raised, last_handler>>

LoopFrame == <<max_iterations, max_context_calls_per_iteration, iteration,
               available_functions, response, sent, model_calls, raised,
               finalize_seen, placementVars, publishVars, runVars, auxVars>>

\* The for loop meets create_review_analysis: take the payload and break.
TakeFinalize ==
    /\ pc = "ToolCall"
    /\ idx <= Len(response.function_calls)
    /\ IsFinalize(response.function_calls[idx])
    /\ final_analysis' = [set |-> TRUE, data |-> response.function_calls[idx].arguments]
    /\ AfterLoop(final_analysis', context_calls_this_iteration, messages, context_history)
    /\ UNCHANGED <<LoopFrame, context_history, idx, context_calls_this_iteration,
                   last_handler>>

\* The for loop meets a tool invocation beyond the cap: warn and break.
CapBreak ==
    /\ pc = "ToolCall"
    /\ idx <= Len(response.function_calls)
    /\ ~IsFinalize(response.function_calls[idx])
    /\ CapReached(context_calls_this_iteration)
    /\ AfterLoop(final_analysis, context_calls_this_iteration, messages, context_history)
    /\ UNCHANGED <<LoopFrame, context_history, idx, context_calls_this_iteration,
                   final_analysis, last_handler>>

\* The for loop executes one tool invocation and records it; after the last
\* invocation of the response the loop ends.
ExecuteContextCall ==
    /\ pc = "ToolCall"
    /\ idx <= Len(response.function_calls)
    /\ ~IsFinalize(response.function_calls[idx])
    /\ ~CapReached(context_calls_this_iteration)
    /\ \E behaviour \in HandlerBehaviours :
        LET func_call == response.function_calls[idx]
            handler == IF func_call.name \in ContextTools THEN behaviour
                       ELSE "not_called"
            context_result == _execute_context_call(func_call.name, behaviour)
            history == Append(context_history,
                              [tool |-> func_call.name, result |-> context_result])
            msgs == messages \o <<CallMessage(func_call),
                                  ResultMessage(func_call, context_result)>>
        IN /\ last_handler' = handler
           /\ IF context_result = Propagated
              THEN /\ Except
                   /\ UNCHANGED <<messages, context_history, idx,
                                  context_calls_this_iteration>>
              ELSE /\ context_history' = history
                   /\ context_calls_this_iteration' = context_calls_this_iteration + 1
                   /\ idx' = idx + 1
                   /\ IF idx + 1 > Len(response.function_calls)
                      THEN AfterLoop(final_analysis, context_calls_this_iteration + 1,
                                     msgs, history)
                      ELSE /\ messages' = msgs
                           /\ pc' = "ToolCall"
                           /\ outcome' = outcome
    /\ UNCHANGED <<LoopFrame, final_analysis>>

\* The while condition fails: the fallback after the loop.
Exhausted ==
    /\ pc = "Gathering"
    /\ ~LoopCondition
    /\ pc' = "FallbackDone"
    /\ outcome' = _create_fallback_analysis(context_history)
    /\ UNCHANGED <<max_iterations, max_context_calls_per_iteration, iteration,
                   messages, context_history, available_functions, response, idx,
                   context_calls_this_iteration, final_analysis, sent,
                   model_calls, raised, last_handler, finalize_seen,
                   placementVars, publishVars, runVars, auxVars>>

Next ==
    \/ ModelRaises
    \/ ModelRepliesWithoutCalls
    \/ ModelRepliesWithCalls
    \/ TakeFinalize
    \/ CapBreak
    \/ ExecuteContextCall
    \/ Exhausted

Spec == Init /\ [][Next]_vars

\* analyze_file runs to its return: no step that is possible is put off forever.
FairSpec == Spec /\ WF_vars(Next)

Terminal == pc \in {"Done", "FallbackDone"}

\* ------------------------------------------------ reading the state
\* The response variable holds the answer of the current iteration.
CurrentResponse == iteration >= 1 /\ ~raised

CallMessages(msgs) == SelectSeq(msgs, LAMBDA m : m.kind = "call")

\* The messages appended since the latest generate_response.
Appended == SubSeq(messages, Len(sent) + 1, Len(messages))

\* Tool calls executed since the latest generate_response.
ExecutedThisIteration == Len(CallMessages(Appended))

\* Log records that existed when the latest generate_response was called.
LoggedBefore == Len(CallMessages(sent))

\* ------------------------------------------------ claims on the loop

\* C1: analyze_file ends after at most max_iterations calls of the model
\* responder, whatever the responder and the tools do, and returns one outcome,
\* finalized or fallback: the calls never exceed the budget, an outcome exists
\* exactly in the two terminal states, nothing happens after the return, and
\* a terminal state is reached.
C1_Terminates ==
    /\ [](/\ model_calls <= max_iterations
          /\ model_calls = iteration
          /\ (Terminal <=> outcome # NoOutcome)
          /\ (Terminal => outcome.kind \in {"finalized", "fallback"})
          /\ (pc = "FallbackDone" => outcome.kind = "fallback"))
    /\ [][~Terminal]_vars
    /\ <>Terminal

C1_Witness ==
    /\ pc = "FallbackDone"
    /\ max_iterations >= 2
    /\ model_calls = max_iterations
    /\ Len(context_history) >= 2

\* C2: when no response ever holds a finalize invocation and the responder
\* never raises, the run ends in FallbackDone after exactly max_iterations
\* calls with no finding, no comment and confidence 0.5, whatever the tools did.
C2_NeverFinalized ==
    (Terminal /\ ~finalize_seen /\ ~raised) =>
        /\ pc = "FallbackDone"
        /\ model_calls = max_iterations
        /\ outcome.issues = <<>>
        /\ outcome.comments = <<>>
        /\ outcome.confidence = 50

C2_Witness ==
    /\ Terminal /\ ~finalize_seen /\ ~raised
    /\ max_iterations = 2
    /\ \E i, j \in 1..Len(context_history) :
        context_history[i].result.success /\ ~context_history[j].result.success

\* C3: a response that holds a finalize invocation ends the loop in Done in
\* that iteration with the finalized outcome, wherever the invocation sits;
\* the tool invocations behind it are not executed.
C3_FinalizeEndsLoop ==
    (CurrentResponse /\ FinalizePositions(response.function_calls) # {}) =>
        \/ pc = "ToolCall"
        \/ /\ pc = "Done"
           /\ model_calls = iteration
           /\ \A i \in FinalizePositions(response.function_calls) :
                ExecutedThisIteration < i

\* C4: Done is never reached on the response of iteration 1: a finalized
\* outcome is returned only in an iteration that offered the finalize capability.
C4_NoDoneInFirstIteration ==
    pc = "Done" =>
        /\ iteration >= 2
        /\ get_review_analysis_schema \in available_functions

\* C5: an iteration executes at most max_context_calls_per_iteration tool
\* invocations, the first ones of the response in order; the log never holds
\* more than iterations x cap records; every executed call has its log record
\* and its assistant/user message pair.
C5_CapAndLog ==
    LET calls == response.function_calls
        executed == Len(context_history) - LoggedBefore
        callAt == {p \in 1..Len(messages) : messages[p].kind = "call"}
    IN /\ context_calls_this_iteration <= max_context_calls_per_iteration
       /\ ExecutedThisIteration <= max_context_calls_per_iteration
       /\ executed = ExecutedThisIteration
       /\ Len(context_history) <= iteration * max_context_calls_per_iteration
       /\ CurrentResponse =>
            /\ executed <= Len(calls)
            /\ \A i \in 1..executed :
                context_history[LoggedBefore + i].tool = calls[i].name
       /\ Cardinality(callAt) = Len(context_history)
       /\ \A p \in callAt :
            /\ p < Len(messages)
            /\ messages[p + 1].kind = "result"
            /\ messages[p + 1].role = "user"
            /\ messages[p].role = "assistant"
            /\ LET i == Cardinality({q \in callAt : q <= p})
               IN /\ context_history[i].tool = messages[p].tool
                  /\ context_history[i].result = messages[p + 1].result
       /\ \A p \in 1..Len(messages) :
            messages[p].kind = "result" => (p > 1 /\ messages[p - 1].kind = "call")

C5_Witness ==
    /\ pc = "Gathering"
    /\ CurrentResponse
    /\ FinalizePositions(response.function_calls) = {}
    /\ Len(response.function_calls) > max_context_calls_per_iteration
    /\ max_context_calls_per_iteration = 2
    /\ ExecutedThisIteration = 2

\* C6: after an iteration that executed no tool call and produced no finalize
\* payload, a steering instruction is the last message before the next call of
\* the responder, which therefore never gets the same conversation twice.
C6_SteeringAfterIdleIteration ==
    (pc = "Gathering" /\ CurrentResponse /\ LoopCondition
        /\ ExecutedThisIteration = 0) =>
        /\ messages # sent
        /\ IsSteering(messages[Len(messages)])

\* C7: an invocation of an unknown name, or one whose handler raises, gives a
\* failure result that is logged and put in the conversation like any other;
\* the loop goes on, and FallbackDone is reached only by a responder exception
\* or by exhausting the iterations.
C7_ToolFailureIsolated ==
    /\ \A i \in 1..Len(context_history) :
        context_history[i].tool \notin ContextTools =>
            /\ ~context_history[i].result.success
            /\ context_history[i].result.error = "unknown_function"
    /\ last_handler \in {"raises", "not_called"} =>
        /\ context_history # <<>>
        /\ LET rec == context_history[Len(context_history)]
           IN /\ ~rec.result.success
              /\ rec.result.error \in {"error_text", "unknown_function"}
              /\ \E p \in 1..Len(messages) - 1 :
                    /\ messages[p].kind = "call" /\ messages[p].tool = rec.tool
                    /\ messages[p + 1].kind = "result"
                    /\ messages[p + 1].result = rec.result
                    /\ \A q \in p + 2..Len(messages) : messages[q].kind # "call"
    /\ pc = "FallbackDone" => (raised \/ ~LoopCondition)

C7_Witness ==
    /\ pc = "Done"
    /\ outcome.kind = "finalized"
    /\ last_handler = "raises"
    /\ Len(context_history) >= 2
    /\ context_history[1].tool = "no_such_tool"

\* C8: an exception of the responder ends the run at once in FallbackDone:
\* nothing can happen after it, and the outcome has no finding, no comment and
\* confidence 0.5, lower than the 0.95 of a finalized outcome.
C8_ResponderException ==
    raised =>
        /\ pc = "FallbackDone"
        /\ ~ENABLED Next
        /\ outcome.kind = "fallback"
        /\ outcome.issues = <<>>
        /\ outcome.comments = <<>>
        /\ outcome.confidence = 50
        /\ outcome.confidence <
            _create_review_analysis_from_response(PayloadOneIssue, <<>>).confidence

C8_Witness ==
    /\ raised
    /\ iteration = 2
    /\ Len(context_history) >= 1

\* ===================================================================
\* AIReviewer._process_ai_response: the issue records of one hunk's answer
\* are turned into ReviewIssues and ReviewComments placed on the hunk.
\* ===================================================================
LineType == {"+", "-", " "}

\* DiffParser._parse_hunk: the two running counters number the lines.
RECURSIVE ParseLines(_, _, _)
ParseLines(kinds, old_line_num, new_line_num) ==
    IF kinds = <<>> THEN <<>>
    ELSE IF Head(kinds) = "+"
         THEN <<[type |-> "+", old_line_number |-> None,
                 new_line_number |-> new_line_num]>>
              \o ParseLines(Tail(kinds), old_line_num, new_line_num + 1)
    ELSE IF Head(kinds) = "-"
         THEN <<[type |-> "-", old_line_number |-> old_line_num,
                 new_line_number |-> None]>>
              \o ParseLines(Tail(kinds), old_line_num + 1, new_line_num)
    ELSE <<[type |-> " ", old_line_number |-> old_line_num,
            new_line_number |-> new_line_num]>>
         \o ParseLines(Tail(kinds), old_line_num + 1, new_line_num + 1)

\* The parse with the two cursors started on each other's side.
_parse_hunk_CursorsSwapped(kinds, source_start, target_start) ==
    [old_start |-> source_start, new_start |-> target_start,
     lines |-> ParseLines(kinds, target_start, source_start)]

_parse_hunk(kinds, source_start, target_start) ==
    [old_start |-> source_start, new_start |-> target_start,
     lines |-> ParseLines(kinds, source_start, target_start)]

\* The inner loop of _find_diff_lines_for_targets: the first line of the hunk
\* whose new or old number is the target, if any.
FirstMatch(lines, target_line) ==
    LET S == {i \in 1..Len(lines) :
                 \/ lines[i].new_line_number = target_line
                 \/ lines[i].old_line_number = target_line}
    IN IF S = {} THEN <<>> ELSE <<lines[Min(S)]>>

RECURSIVE _find_diff_lines_for_targets(_, _)
_find_diff_lines_for_targets(h, target_lines) ==
    IF target_lines = <<>> THEN <<>>
    ELSE FirstMatch(h.lines, Head(target_lines))
         \o _find_diff_lines_for_targets(h, Tail(target_lines))

\* Python's sorted() on a list of numbers (duplicates are kept).
RECURSIVE Insert(_, _)
Insert(n, s) ==
    IF s = <<>> THEN <<n>>
    ELSE IF n <= Head(s) THEN <<n>> \o s
    ELSE <<Head(s)>> \o Insert(n, Tail(s))

RECURSIVE sorted(_)
sorted(s) == IF s = <<>> THEN <<>> ELSE Insert(Head(s), sorted(Tail(s)))

\* The for loop of longest_consecutive_range and its closing comparison.
RECURSIVE ScanRuns(_, _, _, _, _)
ScanRuns(rest, best_start, best_end, cur_start, cur_end) ==
    IF rest = <<>>
    THEN IF (cur_end - cur_start) > (best_end - best_start)
         THEN <<cur_start, cur_end>>
         ELSE <<best_start, best_end>>
    ELSE IF Head(rest) = cur_end + 1
         THEN ScanRuns(Tail(rest), best_start, best_end, cur_start, Head(rest))
    ELSE IF (cur_end - cur_start) > (best_end - best_start)
         THEN ScanRuns(Tail(rest), cur_start, cur_end, Head(rest), Head(rest))
    ELSE ScanRuns(Tail(rest), best_start, best_end, Head(rest), Head(rest))

\* longest_consecutive_range: <<>> stands for None, <<a, b>> for the tuple.
\* The range from the smallest number to the largest.
longest_consecutive_range_Span(numbers) ==
    IF numbers = <<>> THEN <<>>
    ELSE <<Min(Range(numbers)), Max(Range(numbers))>>

longest_consecutive_range(numbers) ==
    IF numbers = <<>> THEN <<>>
    ELSE LET s == sorted(SelectSeq(numbers, LAMBDA n : n # None))
         IN IF s = <<>> THEN <<>>
            ELSE ScanRuns(Tail(s), s[1], s[1], s[1], s[1])

range_length(r) == IF r = <<>> THEN 0 ELSE r[2] - r[1]

\* `if diff_line.new_line_number`: None and 0 are falsy.
TruthyNumber(n) == n # None /\ n # 0

NumbersOf(lines, field) ==
    SelectSeq([i \in 1..Len(lines) |-> lines[i][field]], TruthyNumber)

\* The fallback branch's choice: the first added line, else the first removed
\* line, else the first line.
PrimaryLine(diff_lines) ==
    LET added == SelectSeq(diff_lines, LAMBDA d : d.type = "+")
        removed == SelectSeq(diff_lines, LAMBDA d : d.type = "-")
    IN IF added # <<>> THEN added[1]
       ELSE IF removed # <<>> THEN removed[1]
       ELSE diff_lines[1]

\* _create_comment_from_diff_lines: <<>> stands for the None it returns, a
\* one-element sequence for the ReviewComment.
_create_comment_from_diff_lines(diff_lines, issue) ==
    IF diff_lines = <<>> THEN <<>>
    ELSE
    LET added_lines == SelectSeq(diff_lines, LAMBDA d : d.type = "+")
        removed_lines == SelectSeq(diff_lines, LAMBDA d : d.type = "-")
        added_range ==
            longest_consecutive_range(NumbersOf(added_lines, "new_line_number"))
        removed_range ==
            longest_consecutive_range(NumbersOf(removed_lines, "old_line_number"))
        primary_line == PrimaryLine(diff_lines)
        placed ==
            IF added_range # <<>>
               /\ range_length(added_range) >= Max({1, range_length(removed_range)})
            THEN [start_line |-> added_range[1], line |-> added_range[2],
                  side |-> "RIGHT", start_side |-> "RIGHT"]
            ELSE IF removed_range # <<>> /\ range_length(removed_range) >= 1
            THEN [start_line |-> removed_range[1], line |-> removed_range[2],
                  side |-> "LEFT", start_side |-> "LEFT"]
            ELSE IF primary_line.type = "+"
            THEN [start_line |-> None, line |-> primary_line.new_line_number,
                  side |-> "RIGHT", start_side |-> "none"]
            ELSE IF primary_line.type = "-"
            THEN [start_line |-> None, line |-> primary_line.old_line_number,
                  side |-> "LEFT", start_side |-> "none"]
            ELSE [start_line |-> None, line |-> primary_line.new_line_number,
                  side |-> "RIGHT", start_side |-> "none"]
    IN <<[path |-> "file", title |-> issue.title, line |-> placed.line,
          start_line |-> placed.start_line, side |-> placed.side,
          start_side |-> IF placed.start_line # None THEN placed.start_side
                         ELSE "none",
          severity |-> issue.severity]>>

\* The enum conversions of one issue record do not raise.
IssueDataValid(issue_data) ==
    /\ issue_data.severity \in ReviewSeverity
    /\ issue_data.change_type \in ChangeType

\* `if not diff_lines`, with every record passing.
NoDiffLines_NeverTaken(diff_lines) == FALSE

\* `if not diff_lines`: no target line was found in the hunk.
NoDiffLines(diff_lines) == diff_lines = <<>>

\* The ReviewIssue of one record, spanning from the first listed target line
\* to the last listed one.
HunkIssue_ListOrder(issue_data) ==
    LET first_line == issue_data.target_lines[1]
        last_line == issue_data.target_lines[Len(issue_data.target_lines)]
    IN [title |-> issue_data.title, severity |-> issue_data.severity,
        change_type |-> issue_data.change_type, line |-> last_line,
        start_line |-> IF first_line # last_line THEN first_line ELSE None]

\* The ReviewIssue built from one record.
HunkIssue(issue_data) ==
    LET first_line == Min(Range(issue_data.target_lines))
        last_line == Max(Range(issue_data.target_lines))
    IN [title |-> issue_data.title, severity |-> issue_data.severity,
        change_type |-> issue_data.change_type, line |-> last_line,
        start_line |-> IF first_line # last_line THEN first_line ELSE None]

\* issue_data["title"] does not raise KeyError.
HasTitle(issue_data) == issue_data.title # "missing"

\* The loop over records none of which raises.
RECURSIVE ProcessRecords_NoneRaises(_, _)
ProcessRecords_NoneRaises(records, h) ==
    IF records = <<>> THEN [issues |-> <<>>, comments |-> <<>>]
    ELSE
    LET issue_data == Head(records)
        rest == ProcessRecords_NoneRaises(Tail(records), h)
        diff_lines == _find_diff_lines_for_targets(h, issue_data.target_lines)
    IN IF issue_data.target_lines = <<>> THEN rest
       ELSE IF NoDiffLines(diff_lines) THEN rest
       ELSE [issues |-> <<HunkIssue(issue_data)>> \o rest.issues,
             comments |->
                 _create_comment_from_diff_lines(diff_lines, HunkIssue(issue_data))
                 \o rest.comments]

\* The loop with one try around all of it: a record that raises leaves
\* nothing of the payload.
_process_ai_response_OneTry(records, h) ==
    IF \E i \in 1..Len(records) :
           \/ ~IssueDataValid(records[i])
           \/ /\ records[i].target_lines # <<>>
              /\ ~NoDiffLines(_find_diff_lines_for_targets(h, records[i].target_lines))
              /\ ~HasTitle(records[i])
    THEN [issues |-> <<>>, comments |-> <<>>]
    ELSE ProcessRecords_NoneRaises(records, h)

\* _process_ai_response: the loop over the records, with its two result lists.
RECURSIVE _process_ai_response(_, _)
_process_ai_response(records, h) ==
    IF records = <<>> THEN [issues |-> <<>>, comments |-> <<>>]
    ELSE
    LET issue_data == Head(records)
        rest == _process_ai_response(Tail(records), h)
        diff_lines == _find_diff_lines_for_targets(h, issue_data.target_lines)
    IN IF ~IssueDataValid(issue_data) THEN rest
       ELSE IF issue_data.target_lines = <<>> THEN rest
       ELSE IF NoDiffLines(diff_lines) THEN rest
       ELSE IF ~HasTitle(issue_data) THEN rest
       ELSE [issues |-> <<HunkIssue(issue_data)>> \o rest.issues,
             comments |->
                 _create_comment_from_diff_lines(diff_lines, HunkIssue(issue_data))
                 \o rest.comments]

\* ---- inputs
HunkStarts == {1, 2}

Hunks ==
    {_parse_hunk(k, o, n) :
        k \in SeqsUpTo(LineType, MaxHunkLines) \ {<<>>},
        o \in HunkStarts, n \in HunkStarts}

\* Every number a line of a hunk can carry.
TargetLineNumbers == 1..(Max(HunkStarts) + MaxHunkLines - 1)

TargetLists == SeqsUpTo(TargetLineNumbers, MaxTargets)

\* A record with any target list, its severity a member of the enum or not.
FirstRecords ==
    {[title |-> "r1", severity |-> s, change_type |-> "bug", target_lines |-> t] :
        s \in {"high", "urgent"}, t \in TargetLists}

\* A second, well-formed record aimed at one line.
SecondRecords ==
    {[title |-> "r2", severity |-> "low", change_type |-> "bug",
      target_lines |-> <<t>>] : t \in TargetLineNumbers}

AiResponses ==
    {<<>>} \cup {<<a>> : a \in FirstRecords}
    \cup {<<a, b>> : a \in FirstRecords, b \in SecondRecords}
    \cup {<<b, a>> : a \in FirstRecords, b \in SecondRecords}

\* analyze_file is not running.
LoopIdle ==
    /\ max_iterations = 1
    /\ max_context_calls_per_iteration = 1
    /\ pc = "Idle"
    /\ iteration = 0
    /\ messages = <<>>
    /\ context_history = <<>>
    /\ available_functions = {}
    /\ response = NoResponse
    /\ idx = 0
    /\ context_calls_this_iteration = 0
    /\ final_analysis = NoFinal
    /\ outcome = NoOutcome
    /\ sent = <<>>
    /\ model_calls = 0
    /\ raised = FALSE
    /\ last_handler = "none"
    /\ finalize_seen = FALSE

InitPlacement ==
    /\ LoopIdle
    /\ PublishIdle
    /\ RunIdle
    /\ AuxIdle
    /\ hunk \in Hunks
    /\ ai_response \in AiResponses
    /\ issues = <<>>
    /\ comments = <<>>
    /\ processed = FALSE
    /\ matched = <<>>
    /\ line_numbers = <<>>
    /\ best_range = <<>>

\* One call of _process_ai_response.
ProcessAiResponse ==
    /\ ~processed
    /\ issues' = _process_ai_response(ai_response, hunk).issues
    /\ comments' = _process_ai_response(ai_response, hunk).comments
    /\ processed' = TRUE
    /\ UNCHANGED <<hunk, ai_response, matched, line_numbers, best_range,
                   loopVars, publishVars, runVars, auxVars>>

NextPlacement == ProcessAiResponse

SpecPlacement == InitPlacement /\ [][NextPlacement]_vars

\* ---- readers
\* Some target line of the record is the old or new number of a hunk line.
Matches(issue_data, h) ==
    \E i \in 1..Len(h.lines) : \E t \in Range(issue_data.target_lines) :
        h.lines[i].new_line_number = t \/ h.lines[i].old_line_number = t

Unmatched(issue_data, h) ==
    issue_data.target_lines # <<>> /\ ~Matches(issue_data, h)

Titles(s) == [i \in 1..Len(s) |-> s[i].title]

\* C9: a record whose non-empty target lines match no line of the hunk gives
\* no issue and no comment, the issues and comments of the other records are
\* what they are without it, and no comment returned has a null line.
C9_UnmatchedRecordDiscarded ==
    processed =>
        LET kept == SelectSeq(ai_response, LAMBDA d : ~Unmatched(d, hunk))
            placed == SelectSeq(ai_response,
                        LAMBDA d : /\ IssueDataValid(d)
                                   /\ d.target_lines # <<>>
                                   /\ Matches(d, hunk))
        IN /\ \A i \in 1..Len(ai_response) :
                  Unmatched(ai_response[i], hunk) =>
                      /\ ai_response[i].title \notin Range(Titles(issues))
                      /\ ai_response[i].title \notin Range(Titles(comments))
           /\ Titles(issues) = Titles(placed)
           /\ Titles(comments) = Titles(placed)
           /\ issues = _process_ai_response(kept, hunk).issues
           /\ comments = _process_ai_response(kept, hunk).comments
           /\ \A i \in 1..Len(comments) :
                  comments[i].line # None /\ comments[i].line >= 1

\* An unmatched record stands before a matched one; only the second is placed.
C9_Witness ==
    /\ processed
    /\ Len(ai_response) = 2
    /\ IssueDataValid(ai_response[1])
    /\ Unmatched(ai_response[1], hunk)
    /\ Matches(ai_response[2], hunk)
    /\ Titles(issues) = <<ai_response[2].title>>
    /\ Titles(comments) = <<ai_response[2].title>>


\* ===================================================================
\* GitHubClient.post_review and GitHubClient.post_single_comment
\* ===================================================================
\* `if comment.line is None`, with every comment passing.
HasNoLine_NeverTaken(comment) == FALSE

\* `if comment.line is None`
HasNoLine(comment) == comment.line = None

\* The dictionary post_review builds for one comment; a start_line of None
\* and a start_side of "none" stand for the two keys being absent.
github_comment(comment) ==
    [line |-> comment.line,
     side |-> IF comment.side = "none" THEN "RIGHT" ELSE comment.side,
     start_line |-> comment.start_line,
     start_side |-> IF comment.start_line = None THEN "none"
                    ELSE IF comment.start_side = "none" THEN "RIGHT"
                    ELSE comment.start_side]

\* The for loop of post_review.
RECURSIVE github_comments(_)
github_comments(cs) ==
    IF cs = <<>> THEN <<>>
    ELSE IF HasNoLine(Head(cs)) THEN github_comments(Tail(cs))
    ELSE <<github_comment(Head(cs))>> \o github_comments(Tail(cs))

\* What the GitHub API does during one operation.
ApiBehaviours == {"ok", "get_pull_request_raises", "create_raises"}

\* ---- inputs
ReviewComments ==
    [line : {None, 1, 2}, start_line : {None, 1}, side : {"none", "LEFT"},
     start_side : {"none", "LEFT"}]

InitPublish ==
    /\ LoopIdle
    /\ PlacementIdle
    /\ RunIdle
    /\ AuxIdle
    /\ review_comments \in SeqsUpTo(ReviewComments, MaxComments)
    /\ overall_comment \in BOOLEAN
    /\ called = "none"
    /\ submitted = <<>>
    /\ issue_comment = FALSE
    /\ returned = "none"
    /\ github_raised = FALSE

PublishFrame == <<review_comments, overall_comment, loopVars, placementVars,
                  runVars, auxVars>>

\* post_review(repo_name, pr_number, overall_comment, comments)
PostReview ==
    /\ called = "none"
    /\ called' = "post_review"
    /\ \E api \in ApiBehaviours :
          IF api = "get_pull_request_raises"
          THEN /\ github_raised' = TRUE
               /\ submitted' = <<>>
               /\ issue_comment' = FALSE
               /\ returned' = "False"
          ELSE IF github_comments(review_comments) = <<>>
          THEN /\ github_raised' = (overall_comment /\ api = "create_raises")
               /\ submitted' = <<>>
               /\ issue_comment' = (overall_comment /\ api = "ok")
               /\ returned' = IF overall_comment /\ api = "create_raises"
                              THEN "False" ELSE "True"
          ELSE /\ github_raised' = (api = "create_raises")
               /\ submitted' = IF api = "create_raises" THEN <<>>
                               ELSE github_comments(review_comments)
               /\ issue_comment' = FALSE
               /\ returned' = IF api = "create_raises" THEN "False" ELSE "True"
    /\ UNCHANGED PublishFrame

\* post_single_comment(repo_name, pr_number, comment), the comment being the
\* only element of review_comments.
PostSingleComment ==
    /\ called = "none"
    /\ Len(review_comments) = 1
    /\ called' = "post_single_comment"
    /\ issue_comment' = FALSE
    /\ \E api \in ApiBehaviours :
          IF api = "get_pull_request_raises"
          THEN /\ github_raised' = TRUE
               /\ submitted' = <<>>
               /\ returned' = "False"
          ELSE IF HasNoLine(review_comments[1])
          THEN /\ github_raised' = FALSE
               /\ submitted' = <<>>
               /\ returned' = "False"
          ELSE /\ github_raised' = (api = "create_raises")
               /\ submitted' = IF api = "create_raises" THEN <<>>
                               ELSE <<[github_comment(review_comments[1])
                                         EXCEPT !.start_line = None,
                                                !.start_side = "none"]>>
               /\ returned' = IF api = "create_raises" THEN "False" ELSE "True"
    /\ UNCHANGED PublishFrame

NextPublish ==
    \/ PostReview
    \/ PostSingleComment

SpecPublish == InitPublish /\ [][NextPublish]_vars

\* ---- readers
LineLess(cs) == \E i \in 1..Len(cs) : cs[i].line = None

WithLine(cs) == SelectSeq(cs, LAMBDA c : c.line # None)

SemaphoreWidth == 5
\* prepare_review_data(analyses, max_comments_per_file=5, min_confidence=0.8),
\* confidences in hundredths.
max_comments_per_file == 5
min_confidence == 80

\* What the model call and the processing of its answer do for one hunk:
\* raise, find nothing, or find one issue of the given severity.
HunkAnswers == {"raises", "clean", "critical", "low"}

NoFindings == [issues |-> <<>>, comments |-> <<>>]

\* AIReviewer._analyze_hunk_async for hunk number h of file number f: an
\* exception is caught and gives two empty lists.
_analyze_hunk_async(f, h, answer) ==
    IF answer \in {"raises", "clean"} THEN NoFindings
    ELSE [issues |-> <<[file_path |-> f, title |-> h, severity |-> answer]>>,
          comments |-> <<[path |-> f, title |-> h, line |-> h,
                          start_line |-> None, side |-> "RIGHT",
                          start_side |-> "none", severity |-> answer,
                          body |-> <<answer, h>>]>>]

\* The results of a file's hunks, lost as a whole when one hunk raised.
GatherResults_FailFast(f, answers) ==
    IF \E h \in 1..Len(answers) : answers[h] = "raises" THEN <<>>
    ELSE [h \in 1..Len(answers) |-> _analyze_hunk_async(f, h, answers[h])]

\* asyncio.gather(*tasks, return_exceptions=True): the results in task order.
GatherResults(f, answers) ==
    [h \in 1..Len(answers) |-> _analyze_hunk_async(f, h, answers[h])]

RECURSIVE ExtendAll(_, _)
ExtendAll(results, field) ==
    IF results = <<>> THEN <<>>
    ELSE Head(results)[field] \o ExtendAll(Tail(results), field)

\* The ReviewAnalysis analyze_one builds from the gathered results.
FileAnalysis(f, answers) ==
    LET all_issues == ExtendAll(GatherResults(f, answers), "issues")
        all_comments == ExtendAll(GatherResults(f, answers), "comments")
    IN [file_path |-> f, issues |-> all_issues, comments |-> all_comments,
        confidence |-> IF all_issues # <<>> THEN 90 ELSE 100]

\* CommentManager.filter_comments_by_confidence
RECURSIVE filter_comments_by_confidence(_, _)
filter_comments_by_confidence(as, threshold) ==
    IF as = <<>> THEN <<>>
    ELSE (IF Head(as).confidence >= threshold THEN Head(as).comments ELSE <<>>)
         \o filter_comments_by_confidence(Tail(as), threshold)

\* hash(comment.body): the str hash of the running process.
hash(body) == hash_seed[body]

\* A key of path and line only.
CommentKey_PathLine(c) == <<c.path, c.line>>

\* The key of deduplicate_comments.
CommentKey(c) == <<c.path, c.line, hash(c.body)>>

\* CommentManager.deduplicate_comments: the loop with its `seen` set.
RECURSIVE Deduplicate(_, _)
Deduplicate(cs, seen) ==
    IF cs = <<>> THEN <<>>
    ELSE IF CommentKey(Head(cs)) \in seen THEN Deduplicate(Tail(cs), seen)
    ELSE <<Head(cs)>> \o Deduplicate(Tail(cs), seen \cup {CommentKey(Head(cs))})

deduplicate_comments(cs) == Deduplicate(cs, {})

severity_order(severity) ==
    IF severity = "critical" THEN 0
    ELSE IF severity = "high" THEN 1
    ELSE IF severity = "medium" THEN 2
    ELSE IF severity = "low" THEN 3
    ELSE IF severity = "info" THEN 4
    ELSE 5

\* sorted(comments, key=severity_order): Python's sort is stable.
RECURSIVE SortedFrom(_, _)
SortedFrom(cs, rank) ==
    IF rank > 5 THEN <<>>
    ELSE SelectSeq(cs, LAMBDA c : severity_order(c.severity) = rank)
         \o SortedFrom(cs, rank + 1)

\* The comments in the order given.
sorted_comments_InputOrder(cs) == cs

sorted_comments(cs) == SortedFrom(cs, 0)

\* The counting loop of limit_comments_per_file.
RECURSIVE LimitLoop(_, _, _)
LimitLoop(cs, kept, max_per_file) ==
    IF cs = <<>> THEN kept
    ELSE LET current_count ==
                 Len(SelectSeq(kept, LAMBDA c : c.path = Head(cs).path))
         IN IF current_count < max_per_file
            THEN LimitLoop(Tail(cs), Append(kept, Head(cs)), max_per_file)
            ELSE LimitLoop(Tail(cs), kept, max_per_file)

limit_comments_per_file(cs, max_per_file) ==
    LimitLoop(sorted_comments(cs), <<>>, max_per_file)

\* CommentManager.prepare_review_data; format_overall_review always gives a
\* non-empty text.
prepare_review_data(as, max_per_file, threshold) ==
    [overall_comment |-> TRUE,
     comments |-> limit_comments_per_file(
                      deduplicate_comments(
                          filter_comments_by_confidence(as, threshold)),
                      max_per_file)]

\* ---- inputs
FileAnswers == SeqsUpTo(HunkAnswers, MaxHunks) \ {<<>>}

\* The comment bodies a run can produce.
RunBodies == HunkAnswers \X (1..MaxHunks)

InitRun ==
    /\ LoopIdle
    /\ PlacementIdle
    /\ PublishIdle
    /\ ManagerIdle
    /\ SuggestionIdle
    /\ patch = NoPatch
    /\ SessionIdle
    \* a process whose hash tells the bodies of the run apart
    /\ hash_seed = [b \in RunBodies |-> b]
    /\ run_pc = "start"
    /\ pr_files \in SeqsUpTo(FileAnswers, MaxFiles)
    /\ file_status = [f \in 1..Len(pr_files) |-> "waiting"]
    /\ hunk_status = [f \in 1..Len(pr_files) |->
                         [h \in 1..Len(pr_files[f]) |-> "pending"]]
    /\ permits = SemaphoreWidth
    /\ analyses = <<>>
    /\ dry_run \in BOOLEAN
    /\ run_result = "none"

RunFrame == <<loopVars, placementVars, pr_files, dry_run, auxVars>>

\* validate_connection fails or fetch_pr_data raises: the run returns False.
FetchFails ==
    /\ run_pc = "start"
    /\ run_pc' = "done"
    /\ run_result' = "False"
    /\ github_raised' = TRUE
    /\ UNCHANGED <<RunFrame, file_status, hunk_status, permits, analyses,
                   review_comments, overall_comment, called, submitted,
                   issue_comment, returned>>

\* The change set is fetched; without reviewable files the run returns True.
FetchPrData ==
    /\ run_pc = "start"
    /\ IF pr_files = <<>>
       THEN run_pc' = "done" /\ run_result' = "True"
       ELSE run_pc' = "analyzing" /\ run_result' = run_result
    /\ UNCHANGED <<RunFrame, file_status, hunk_status, permits, analyses,
                   publishVars>>

\* sem_task(fd) acquires the semaphore, analyze_one creates the file's hunk
\* tasks and each of them calls the model. Tasks start in the order of their
\* creation.
StartFile(f) ==
    /\ run_pc = "analyzing"
    /\ file_status[f] = "waiting"
    /\ \A g \in 1..(f - 1) : file_status[g] # "waiting"
    /\ permits > 0
    /\ permits' = permits - 1
    /\ file_status' = [file_status EXCEPT ![f] = "running"]
    /\ hunk_status' = [hunk_status EXCEPT
                          ![f] = [h \in 1..Len(pr_files[f]) |-> "in_flight"]]
    /\ UNCHANGED <<RunFrame, run_pc, analyses, run_result, publishVars>>

\* The model call of one hunk returns or raises and _analyze_hunk_async ends.
CompleteHunk(f, h) ==
    /\ run_pc = "analyzing"
    /\ hunk_status[f][h] = "in_flight"
    /\ hunk_status' = [hunk_status EXCEPT ![f][h] = "done"]
    /\ UNCHANGED <<RunFrame, run_pc, file_status, permits, analyses,
                   run_result, publishVars>>

\* gather returns in analyze_one: the analysis is appended when it has issues,
\* and sem_task releases the semaphore.
FinishFile(f) ==
    /\ run_pc = "analyzing"
    /\ file_status[f] = "running"
    /\ \A h \in 1..Len(pr_files[f]) : hunk_status[f][h] = "done"
    /\ analyses' = IF FileAnalysis(f, pr_files[f]).issues # <<>>
                   THEN Append(analyses, FileAnalysis(f, pr_files[f]))
                   ELSE analyses
    /\ file_status' = [file_status EXCEPT ![f] = "finished"]
    /\ permits' = permits + 1
    /\ UNCHANGED <<RunFrame, run_pc, hunk_status, run_result, publishVars>>

\* _analyze_files_async has returned: no analyses give False, a dry run logs
\* the preview and gives True, otherwise the review data go to post_review.
\* gather returning as soon as one sem_task is done.
GatherReturned_FirstCompleted ==
    \E f \in 1..Len(pr_files) : file_status[f] = "finished"

\* await asyncio.gather(*(sem_task(f) for f in files)) has returned.
GatherReturned ==
    \A f \in 1..Len(pr_files) : file_status[f] = "finished"

Aggregate ==
    /\ run_pc = "analyzing"
    /\ GatherReturned
    /\ IF analyses = <<>>
       THEN /\ run_pc' = "done"
            /\ run_result' = "False"
            /\ UNCHANGED <<review_comments, overall_comment>>
       ELSE /\ review_comments' =
                   prepare_review_data(analyses, max_comments_per_file,
                                       min_confidence).comments
            /\ overall_comment' =
                   prepare_review_data(analyses, max_comments_per_file,
                                       min_confidence).overall_comment
            /\ IF dry_run
               THEN run_pc' = "done" /\ run_result' = "True"
               ELSE run_pc' = "posting" /\ run_result' = run_result
    /\ UNCHANGED <<RunFrame, file_status, hunk_status, permits, analyses,
                   called, submitted, issue_comment, returned, github_raised>>

\* self.github_client.post_review(...)
RunPostReview ==
    /\ run_pc = "posting"
    /\ PostReview

\* review_pull_request returns what post_review returned.
ReturnSuccess ==
    /\ run_pc = "posting"
    /\ called = "post_review"
    /\ run_pc' = "done"
    /\ run_result' = returned
    /\ UNCHANGED <<RunFrame, file_status, hunk_status, permits, analyses,
                   publishVars>>

NextRun ==
    \/ FetchFails
    \/ FetchPrData
    \/ \E f \in 1..Len(pr_files) : StartFile(f)
    \/ \E f \in 1..Len(pr_files) : \E h \in 1..Len(pr_files[f]) : CompleteHunk(f, h)
    \/ \E f \in 1..Len(pr_files) : FinishFile(f)
    \/ Aggregate
    \/ RunPostReview
    \/ ReturnSuccess

SpecRun == InitRun /\ [][NextRun]_vars

\* ---- readers
InFlight ==
    {<<f, h>> \in (1..MaxFiles) \X (1..MaxHunks) :
        /\ f <= Len(hunk_status)
        /\ h <= Len(hunk_status[f])
        /\ hunk_status[f][h] = "in_flight"}

\* fetch_pr_data returned the change set.
Fetched == run_pc # "start" /\ ~(called = "none" /\ github_raised)

\* No hunk of any file gave a finding.
ZeroFindings ==
    \A f \in 1..Len(pr_files) : \A h \in 1..Len(pr_files[f]) :
        pr_files[f][h] \in {"raises", "clean"}

\* The hunks of file f whose answer holds a finding, in hunk order.
FindingHunks(f) ==
    SelectSeq([h \in 1..Len(pr_files[f]) |-> h],
              LAMBDA h : pr_files[f][h] \notin {"raises", "clean"})

AnalysesOf(f) == SelectSeq(analyses, LAMBDA a : a.file_path = f)

\* The analyses with issues of all files, in the order of the file list.
RECURSIVE InFileOrder(_)
InFileOrder(f) ==
    IF f > Len(pr_files) THEN <<>>
    ELSE (IF FileAnalysis(f, pr_files[f]).issues # <<>>
          THEN <<FileAnalysis(f, pr_files[f])>> ELSE <<>>)
         \o InFileOrder(f + 1)

\* C11: a run that fetched its change set and found nothing in any reviewable
\* file returns True after posting the review or previewing it; the run
\* returns False only when the fetch or the publish call failed.
C11_CleanReviewSucceeds ==
    (run_pc = "done" /\ Fetched) =>
        /\ (pr_files # <<>> /\ ZeroFindings /\ ~github_raised) =>
               /\ run_result = "True"
               /\ dry_run \/ called = "post_review"
        /\ run_result = "False" => github_raised

\* C12: the comments of the review payload are those the aggregation gives
\* for the analyses taken in the order of the file list, in whatever order
\* the file tasks finished.
C12_PayloadOrderIndependentOfCompletion ==
    (run_pc \in {"posting", "done"} /\ analyses # <<>>) =>
        review_comments =
            prepare_review_data(InFileOrder(1), max_comments_per_file,
                                min_confidence).comments

\* C13: at most SemaphoreWidth model calls are in flight at any moment.
C13_InFlightBounded == Cardinality(InFlight) <= SemaphoreWidth

\* C14: a hunk whose analysis raised contributes nothing and cancels nothing:
\* a finished file has, when some hunk of it gave a finding, exactly one
\* analysis, holding the issues and comments of all its hunks with findings
\* in hunk order, and otherwise none; while a file runs each of its hunks is
\* in flight or done.
C14_HunkFailureIsolated ==
    \A f \in 1..Len(pr_files) :
        /\ file_status[f] = "running" =>
               \A h \in 1..Len(pr_files[f]) :
                   hunk_status[f][h] \in {"in_flight", "done"}
        /\ file_status[f] = "finished" =>
               IF FindingHunks(f) = <<>> THEN AnalysesOf(f) = <<>>
               ELSE /\ Len(AnalysesOf(f)) = 1
                    /\ Titles(AnalysesOf(f)[1].issues) = FindingHunks(f)
                    /\ Titles(AnalysesOf(f)[1].comments) = FindingHunks(f)
                    /\ \A i \in 1..Len(FindingHunks(f)) :
                           /\ AnalysesOf(f)[1].comments[i].severity =
                                  pr_files[f][FindingHunks(f)[i]]
                           /\ AnalysesOf(f)[1].issues[i].severity =
                                  pr_files[f][FindingHunks(f)[i]]

\* The first file has a hunk that raised before a hunk with a finding, the
\* second file has a finding, and both analyses were collected.
C14_Witness ==
    /\ run_pc = "done"
    /\ Len(pr_files) = 2
    /\ Len(pr_files[1]) >= 2
    /\ pr_files[1][1] = "raises"
    /\ FindingHunks(1) # <<>>
    /\ FindingHunks(2) # <<>>
    /\ Len(analyses) = 2
    /\ Len(AnalysesOf(1)[1].comments) = Len(FindingHunks(1))


\* ===================================================================
\* longest_consecutive_range applied to a list of line numbers
\* ===================================================================
InitRange ==
    /\ LoopIdle
    /\ PublishIdle
    /\ RunIdle
    /\ AuxIdle
    /\ hunk = NoHunk
    /\ ai_response = <<>>
    /\ issues = <<>>
    /\ comments = <<>>
    /\ processed = FALSE
    /\ matched = <<>>
    /\ line_numbers \in SeqsUpTo(TargetLineNumbers, MaxRunTargets) \ {<<>>}
    /\ best_range = <<>>

LongestConsecutiveRange ==
    /\ ~processed
    /\ best_range' = longest_consecutive_range(line_numbers)
    /\ processed' = TRUE
    /\ UNCHANGED <<hunk, ai_response, issues, comments, matched, line_numbers,
                   loopVars, publishVars, runVars, auxVars>>

NextRange == LongestConsecutiveRange

SpecRange == InitRange /\ [][NextRange]_vars

\* ---- readers
\* s..e is a run of consecutive integers all present in S.
IsRun(s, e, S) == s <= e /\ \A n \in s..e : n \in S

Runs(S) == {r \in S \X S : IsRun(r[1], r[2], S)}

\* The longest run of S, the one with the smallest start among the longest.
LongestRun(S) ==
    CHOOSE r \in Runs(S) :
        \A q \in Runs(S) :
            \/ q[2] - q[1] < r[2] - r[1]
            \/ (q[2] - q[1] = r[2] - r[1] /\ r[1] <= q[1])

\* C16: for a non-empty list of numbers longest_consecutive_range returns the
\* bounds of a longest run of consecutive integers among them, the one with
\* the smallest start when several are longest.
C16_LongestRunReturned ==
    processed => best_range = LongestRun(Range(line_numbers))


\* ===================================================================
\* The placement of one record: _find_diff_lines_for_targets followed by
\* _create_comment_from_diff_lines, as _process_ai_response calls them.
\* ===================================================================
ResolverRecords ==
    {[title |-> "r1", severity |-> "high", change_type |-> "bug",
      target_lines |-> t] :
        t \in SeqsUpTo(TargetLineNumbers, MaxRunTargets) \ {<<>>}}

InitResolver ==
    /\ LoopIdle
    /\ PublishIdle
    /\ RunIdle
    /\ AuxIdle
    /\ hunk \in Hunks
    /\ ai_response \in {<<r>> : r \in ResolverRecords}
    /\ issues = <<>>
    /\ comments = <<>>
    /\ processed = FALSE
    /\ matched = <<>>
    /\ line_numbers = <<>>
    /\ best_range = <<>>

\* Lines 265 and 291 of _process_ai_response for the record.
PlaceComment ==
    /\ ~processed
    /\ Len(ai_response) = 1
    /\ matched' = _find_diff_lines_for_targets(hunk, ai_response[1].target_lines)
    /\ comments' = _create_comment_from_diff_lines(
                       _find_diff_lines_for_targets(hunk,
                                                    ai_response[1].target_lines),
                       HunkIssue(ai_response[1]))
    /\ processed' = TRUE
    /\ UNCHANGED <<hunk, ai_response, issues, line_numbers, best_range,
                   loopVars, publishVars, runVars, auxVars>>

NextResolver == PlaceComment

SpecResolver == InitResolver /\ [][NextResolver]_vars

\* ---- readers
\* The new numbers of the matched Added lines, the old numbers of the matched
\* Removed lines.
AddedNumbers == {matched[i].new_line_number :
                    i \in {j \in 1..Len(matched) : matched[j].type = "+"}}

RemovedNumbers == {matched[i].old_line_number :
                      i \in {j \in 1..Len(matched) : matched[j].type = "-"}}

\* The number of lines the longest run of S spans beyond its first, 0 when S
\* is empty.
RunLength(S) == IF S = {} THEN 0 ELSE LongestRun(S)[2] - LongestRun(S)[1]

AddedRunWins ==
    /\ RunLength(AddedNumbers) >= 1
    /\ RunLength(AddedNumbers) >= RunLength(RemovedNumbers)

RemovedRunWins == ~AddedRunWins /\ RunLength(RemovedNumbers) >= 1

\* The positions in the hunk of the lines that were matched, of one type or
\* of any.
MatchedPositions(types) ==
    {i \in 1..Len(hunk.lines) :
        /\ hunk.lines[i].type \in types
        /\ \E j \in 1..Len(matched) : matched[j] = hunk.lines[i]}

\* The first matched line in the hunk's order: Added before Removed before any.
FirstByPriority ==
    IF MatchedPositions({"+"}) # {}
    THEN hunk.lines[Min(MatchedPositions({"+"}))]
    ELSE IF MatchedPositions({"-"}) # {}
    THEN hunk.lines[Min(MatchedPositions({"-"}))]
    ELSE hunk.lines[Min(MatchedPositions(LineType))]

\* C15: the comment is anchored on the longest run of matched Added lines
\* (RIGHT, start_line and line its bounds) when that run spans two lines or
\* more and is as long as the longest run of matched Removed lines; if not, on
\* the longest run of matched Removed lines (LEFT) when it spans two lines or
\* more.
C15_LongestRunAnchored ==
    (processed /\ matched # <<>>) =>
        /\ AddedRunWins =>
              /\ comments[1].side = "RIGHT"
              /\ comments[1].start_line = LongestRun(AddedNumbers)[1]
              /\ comments[1].line = LongestRun(AddedNumbers)[2]
        /\ RemovedRunWins =>
              /\ comments[1].side = "LEFT"
              /\ comments[1].start_line = LongestRun(RemovedNumbers)[1]
              /\ comments[1].line = LongestRun(RemovedNumbers)[2]

\* C17: every Added line whose new number is a target and every Removed line
\* whose old number is a target is among the matched lines.
C17_BothSidesMatched ==
    processed =>
        \A i \in 1..Len(hunk.lines) : \A t \in Range(ai_response[1].target_lines) :
            (\/ hunk.lines[i].type = "+" /\ hunk.lines[i].new_line_number = t
             \/ hunk.lines[i].type = "-" /\ hunk.lines[i].old_line_number = t)
            => \E j \in 1..Len(matched) : matched[j] = hunk.lines[i]

\* C18: when neither side has a run of two lines, the comment has no
\* start_line and is anchored on the first matched line in the hunk's order,
\* an Added one before a Removed one before any other.
C18_FallbackFirstInHunkOrder ==
    (processed /\ matched # <<>> /\ ~AddedRunWins /\ ~RemovedRunWins) =>
        /\ comments[1].start_line = None
        /\ comments[1].line =
               IF FirstByPriority.type = "-"
               THEN FirstByPriority.old_line_number
               ELSE FirstByPriority.new_line_number
        /\ comments[1].side =
               IF FirstByPriority.type = "-" THEN "LEFT" ELSE "RIGHT"


\* ===================================================================
\* One payload of issue records taken through both analysis paths:
\* AIReviewer._process_ai_response on the owning hunk and
\* AgenticReviewer._create_review_analysis_from_response.
\* ===================================================================
\* The record with its "side" key, "missing" when the key is absent.
WithSide(issue_data, s) ==
    [title |-> issue_data.title, severity |-> issue_data.severity,
     change_type |-> issue_data.change_type,
     target_lines |-> issue_data.target_lines, side |-> s]

SidePayloads ==
    {<<>>}
    \cup {<<WithSide(a, s)>> : a \in FirstRecords, s \in {"LEFT", "missing"}}
    \cup {<<WithSide(a, s), WithSide(b, "RIGHT")>> :
             a \in FirstRecords, b \in SecondRecords, s \in {"LEFT", "missing"}}
    \cup {<<WithSide(b, "RIGHT"), WithSide(a, s)>> :
             a \in FirstRecords, b \in SecondRecords, s \in {"LEFT", "missing"}}

InitPayload ==
    /\ LoopIdle
    /\ PublishIdle
    /\ RunIdle
    /\ AuxIdle
    /\ hunk \in Hunks
    /\ ai_response \in SidePayloads
    /\ issues = <<>>
    /\ comments = <<>>
    /\ processed = FALSE
    /\ matched = <<>>
    /\ line_numbers = <<>>
    /\ best_range = <<>>

\* One call of _create_review_analysis_from_response with the payload.
CreateReviewAnalysisFromResponse ==
    /\ outcome = NoOutcome
    /\ outcome' = _create_review_analysis_from_response(
                      [empty |-> FALSE, iterable |-> TRUE, issues |-> ai_response],
                      <<>>)
    /\ UNCHANGED <<pc, max_iterations, max_context_calls_per_iteration,
                   iteration, messages, context_history, available_functions,
                   response, idx, context_calls_this_iteration, final_analysis,
                   sent, model_calls, raised, last_handler, finalize_seen,
                   placementVars, publishVars, runVars, auxVars>>

NextPayload ==
    \/ ProcessAiResponse
    \/ CreateReviewAnalysisFromResponse

SpecPayload == InitPayload /\ [][NextPayload]_vars

\* ---- readers
\* start_side is present exactly when start_line is, and is then the side.
StartSideConsistent(c) ==
    /\ c.start_side # "none" <=> c.start_line # None
    /\ c.start_side # "none" => c.start_side = c.side

\* The hunk lines carrying the comment's line number on the comment's side.
AnchorLines(c, h) ==
    {i \in 1..Len(h.lines) :
        IF c.side = "LEFT"
        THEN h.lines[i].type = "-" /\ h.lines[i].old_line_number = c.line
        ELSE h.lines[i].type \in {"+", " "} /\ h.lines[i].new_line_number = c.line}

Finalized == outcome.kind = "finalized"

C20_EmptyTargetsDiscarded ==
    /\ processed =>
          /\ \A i \in 1..Len(ai_response) :
                ai_response[i].target_lines = <<>> =>
                    /\ ai_response[i].title \notin Range(Titles(issues))
                    /\ ai_response[i].title \notin Range(Titles(comments))
          /\ Titles(issues) =
                 Titles(SelectSeq(ai_response,
                     LAMBDA d : /\ IssueDataValid(d)
                                /\ d.target_lines # <<>>
                                /\ Matches(d, hunk)))
          /\ Titles(comments) = Titles(issues)
    /\ Finalized =>
          /\ \A i \in 1..Len(ai_response) :
                ai_response[i].target_lines = <<>> =>
                    /\ ai_response[i].title \notin Range(Titles(outcome.issues))
                    /\ ai_response[i].title \notin Range(Titles(outcome.comments))
          /\ Titles(outcome.issues) =
                 Titles(SelectSeq(ai_response,
                     LAMBDA d : /\ d.severity \in ReviewSeverity
                                /\ d.target_lines # <<>>))
          /\ Titles(outcome.comments) = Titles(outcome.issues)

\* A record without target lines stands before a usable one; both paths have
\* run and each gave the issue and the comment of the second record only.
C20_Witness ==
    /\ processed
    /\ Finalized
    /\ Len(ai_response) = 2
    /\ ai_response[1].target_lines = <<>>
    /\ ai_response[1].severity \in ReviewSeverity
    /\ Titles(issues) = <<ai_response[2].title>>
    /\ Titles(comments) = <<ai_response[2].title>>
    /\ Titles(outcome.issues) = <<ai_response[2].title>>
    /\ Titles(outcome.comments) = <<ai_response[2].title>>

\* ---- C21
\* The record of the payload with this title (the titles of a payload differ).
RecordOf(title) == CHOOSE d \in Range(ai_response) : d.title = title

\* The issue's line is the largest target line of the record; its start_line
\* is the smallest one when that is a different number, and absent otherwise.
SpansTargets(issue, d) ==
    LET T == Range(d.target_lines)
    IN /\ issue.line \in T
       /\ \A t \in T : t <= issue.line
       /\ IF \A t \in T : t = issue.line
          THEN issue.start_line = None
          ELSE /\ issue.start_line \in T
               /\ \A t \in T : issue.start_line <= t

\* C21: in both paths the issue built from a record has line = the maximum of
\* the record's target lines and start_line = their minimum when it differs
\* from the maximum, and no start_line when all target lines are equal.
C21_IssueSpansTargets ==
    /\ \A i \in 1..Len(issues) :
          SpansTargets(issues[i], RecordOf(issues[i].title))
    /\ \A i \in 1..Len(outcome.issues) :
          SpansTargets(outcome.issues[i], RecordOf(outcome.issues[i].title))

\* Both paths have built issues from a record that lists its larger target
\* line first and from a record that lists one line twice.
C21_Witness ==
    /\ processed
    /\ Finalized
    /\ Len(issues) = 2
    /\ Len(outcome.issues) = 2
    /\ \E d \in Range(ai_response) :
          Len(d.target_lines) = 2 /\ d.target_lines[1] > d.target_lines[2]
    /\ \E i \in 1..Len(issues) : issues[i].start_line # None
    /\ \E i \in 1..Len(issues) : issues[i].start_line = None

\* ---- C22: records that fail validation
\* Hunks that start at line 1 on both sides.
RecordHunks == {h \in Hunks : h.old_start = 1 /\ h.new_start = 1}

\* Target lists: none, one line, two lines, a line no hunk reaches.
RecordTargets == {<<>>, <<1>>, <<1, 2>>, <<9>>}

\* The records a payload can hold in one position: the title present or
\* missing, the severity and the change type valid or not.
RecordsAt(title) ==
    {[title |-> n, severity |-> s, change_type |-> c, target_lines |-> t,
      side |-> "RIGHT"] :
        n \in {title, "missing"}, s \in {"high", "urgent"},
        c \in {"bug", "refactor"}, t \in RecordTargets}

RecordPayloads ==
    {<<>>} \cup {<<a>> : a \in RecordsAt("r1")}
    \cup {<<a, b>> : a \in RecordsAt("r1"), b \in RecordsAt("r2")}

InitRecords ==
    /\ LoopIdle
    /\ PublishIdle
    /\ RunIdle
    /\ AuxIdle
    /\ hunk \in RecordHunks
    /\ ai_response \in RecordPayloads
    /\ issues = <<>>
    /\ comments = <<>>
    /\ processed = FALSE
    /\ matched = <<>>
    /\ line_numbers = <<>>
    /\ best_range = <<>>

SpecRecords == InitRecords /\ [][NextPayload]_vars

\* The record has its required fields and its enum values are members.
WellFormed(d) ==
    /\ d.title # "missing"
    /\ d.severity \in ReviewSeverity
    /\ d.change_type \in ChangeType

\* C22: in both paths the issues returned are those of the well-formed
\* records that can be anchored (target lines present, and in the hunk path
\* found in the hunk), in payload order, whatever the other records of the
\* payload are; the agentic outcome is the finalized one, not the fallback.
C22_InvalidRecordDroppedAlone ==
    /\ processed =>
          Titles(issues) =
              Titles(SelectSeq(ai_response,
                  LAMBDA d : /\ WellFormed(d)
                             /\ d.target_lines # <<>>
                             /\ Matches(d, hunk)))
    /\ outcome # NoOutcome =>
          /\ outcome.kind = "finalized"
          /\ Titles(outcome.issues) =
                 Titles(SelectSeq(ai_response,
                     LAMBDA d : WellFormed(d) /\ d.target_lines # <<>>))

\* A record with an invalid change type stands before a well-formed one:
\* both paths have run and each returned the issue of the well-formed record.
C22_Witness ==
    /\ processed
    /\ outcome # NoOutcome
    /\ Len(ai_response) = 2
    /\ ai_response[1].change_type \notin ChangeType
    /\ ai_response[1].target_lines # <<>>
    /\ Titles(issues) = <<"r2">>
    /\ Titles(outcome.issues) = <<"r2">>

\* ---- C23
\* C23: the comment of a finalized agentic outcome is on the side its record
\* declares, when it declares one, and its start_line and line are the ones
\* the resolver gives the same record on the file's hunk.
C23_AgenticRangeFromResolver ==
    (processed /\ Finalized) =>
        \A i \in 1..Len(outcome.comments) :
            LET c == outcome.comments[i]
                d == RecordOf(c.title)
            IN /\ d.side # "missing" => c.side = d.side
               /\ \A j \in 1..Len(comments) :
                     comments[j].title = c.title =>
                         /\ c.line = comments[j].line
                         /\ c.start_line = comments[j].start_line

\* ------------------------------------------- the comment manager alone
ManagerPaths == {"a.py", "b.py"}
ManagerLines == {1, 2}
ManagerBodies == {"x", "y"}
\* The values hash() can give the bodies: as many as there are bodies, so
\* that it can tell them apart and can fail to.
HashValues == {1, 2}

ManagerComments ==
    {[path |-> f, line |-> l, body |-> b, severity |-> s] :
        f \in ManagerPaths, l \in ManagerLines, b \in ManagerBodies,
        s \in {"critical", "high", "low"}}

InitManager ==
    /\ LoopIdle
    /\ PlacementIdle
    /\ PublishIdle
    /\ RunIdle
    /\ SuggestionIdle
    /\ patch = NoPatch
    /\ SessionIdle
    /\ comment_list \in SeqsUpTo(ManagerComments, MaxListed)
    /\ hash_seed \in [ManagerBodies -> HashValues]
    /\ cap \in 1..MaxCap
    /\ prepared = comment_list
    /\ applied = <<>>

ManagerFrame == <<loopVars, placementVars, publishVars, runVars, comment_list,
                  hash_seed, cap, suggestionVars, patch, sessionVars>>

\* One call of deduplicate_comments on the current list.
DeduplicateComments ==
    /\ Len(applied) < 2
    /\ prepared' = deduplicate_comments(prepared)
    /\ applied' = Append(applied, "deduplicate_comments")
    /\ UNCHANGED ManagerFrame

\* One call of limit_comments_per_file on the current list.
LimitCommentsPerFile ==
    /\ Len(applied) < 2
    /\ prepared' = limit_comments_per_file(prepared, cap)
    /\ applied' = Append(applied, "limit_comments_per_file")
    /\ UNCHANGED ManagerFrame

NextManager ==
    \/ DeduplicateComments
    \/ LimitCommentsPerFile

SpecManager == InitManager /\ [][NextManager]_vars

\* ---- readers
\* The k-th smallest member of a set of positions.
Kth(P, k) == CHOOSE q \in P : Cardinality({r \in P : r < q}) = k - 1

\* The subsequence of cs at the positions P.
SubSeqAt(cs, P) == [k \in 1..Cardinality(P) |-> cs[Kth(P, k)]]

HashKey(c) == <<c.path, c.line, hash_seed[c.body]>>
TextKey(c) == <<c.path, c.line, c.body>>

FirstByHashKey(cs) ==
    {i \in 1..Len(cs) : \A j \in 1..(i - 1) : HashKey(cs[j]) # HashKey(cs[i])}
FirstByTextKey(cs) ==
    {i \in 1..Len(cs) : \A j \in 1..(i - 1) : TextKey(cs[j]) # TextKey(cs[i])}

OnlyDeduplicated ==
    applied \in {<<"deduplicate_comments">>,
                 <<"deduplicate_comments", "deduplicate_comments">>}

OfFile(cs, f) == SelectSeq(cs, LAMBDA c : c.path = f)

\* Position i of cs goes before position j: higher priority, or the same
\* priority and earlier in the list.
GoesBefore(cs, i, j) ==
    \/ severity_order(cs[i].severity) < severity_order(cs[j].severity)
    \/ /\ severity_order(cs[i].severity) = severity_order(cs[j].severity)
       /\ i < j

Ahead(cs, i) == Cardinality({j \in 1..Len(cs) : GoesBefore(cs, j, i)})

\* The n positions of cs that go first, as a sequence in that order.
FirstInPriority(cs, n) ==
    [k \in 1..Min({n, Len(cs)}) |->
        cs[CHOOSE i \in 1..Len(cs) : Ahead(cs, i) = k - 1]]

\* C25: after limit_comments_per_file with cap N on a list, the comments of
\* each file are the N of that file that go first by severity priority, ties
\* in input order (all of them when the file has at most N): so no dropped
\* comment has a higher priority than a kept one of its file.
C25_CapKeepsHighestPriority ==
    applied = <<"limit_comments_per_file">> =>
        \A f \in ManagerPaths :
            OfFile(prepared, f) = FirstInPriority(OfFile(comment_list, f), cap)

\* limit_comments_per_file ran with cap 2 on three comments of one file of
\* severities low, critical, high: critical and high are left, in this order.
C25_Witness ==
    /\ applied = <<"limit_comments_per_file">>
    /\ cap = 2
    /\ Len(comment_list) = 3
    /\ \A i \in 1..3 : comment_list[i].path = "a.py"
    /\ comment_list[1].severity = "low"
    /\ comment_list[2].severity = "critical"
    /\ comment_list[3].severity = "high"
    /\ prepared = <<comment_list[2], comment_list[3]>>

\* ------------------------------------------------ the parser alone
\* The kinds of line a unidiff hunk holds: added, removed, context and the
\* "\ No newline at end of file" marker.
RawLineKinds == LineType \cup {"\\"}

RawHunks ==
    {[kinds |-> k, source_start |-> o, target_start |-> n] :
        k \in SeqsUpTo(RawLineKinds, MaxHunkLines) \ {<<>>},
        o \in HunkStarts, n \in HunkStarts}

InitParser ==
    /\ LoopIdle
    /\ PlacementIdle
    /\ PublishIdle
    /\ RunIdle
    /\ ManagerIdle
    /\ hash_seed = <<>>
    /\ SuggestionIdle
    /\ SessionIdle
    /\ patch \in RawHunks

\* One call of _parse_hunk.
ParseHunk ==
    /\ hunk = NoHunk
    /\ hunk' = _parse_hunk(patch.kinds, patch.source_start, patch.target_start)
    /\ UNCHANGED <<loopVars, ai_response, issues, comments, processed, matched,
                   line_numbers, best_range, publishVars, runVars, auxVars>>

NextParser == ParseHunk

SpecParser == InitParser /\ [][NextParser]_vars

\* ---- readers
\* The lines before position i that carry a new number, and an old one.
NewBefore(h, i) == Cardinality({j \in 1..(i - 1) : h.lines[j].type \in {"+", " "}})
OldBefore(h, i) == Cardinality({j \in 1..(i - 1) : h.lines[j].type \in {"-", " "}})

\* C26: in the hunk the parser returns an Added line has a new number and no
\* old one, a Removed line an old number and no new one, a Context line has
\* both; the new numbers of the Added and Context lines are new_start,
\* new_start + 1, ... in line order and the old numbers of the Removed and
\* Context lines are old_start, old_start + 1, ... in line order.
C26_NumbersFollowCursors ==
    /\ hunk.old_start = (IF hunk = NoHunk THEN 1 ELSE patch.source_start)
    /\ hunk.new_start = (IF hunk = NoHunk THEN 1 ELSE patch.target_start)
    /\ hunk # NoHunk => Len(hunk.lines) = Len(patch.kinds)
    /\ \A i \in 1..Len(hunk.lines) :
          LET l == hunk.lines[i]
          IN /\ patch.kinds[i] = "+" <=> l.type = "+"
             /\ patch.kinds[i] = "-" <=> l.type = "-"
             /\ l.type = "+" =>
                   /\ l.old_line_number = None
                   /\ l.new_line_number = hunk.new_start + NewBefore(hunk, i)
             /\ l.type = "-" =>
                   /\ l.new_line_number = None
                   /\ l.old_line_number = hunk.old_start + OldBefore(hunk, i)
             /\ l.type = " " =>
                   /\ l.new_line_number = hunk.new_start + NewBefore(hunk, i)
                   /\ l.old_line_number = hunk.old_start + OldBefore(hunk, i)

\* A hunk whose old side starts at 2 and new side at 1 was parsed: a Removed
\* line, an Added line, then a Context line numbered 3 old and 2 new.
C26_Witness ==
    /\ patch.kinds = <<"-", "+", " ">>
    /\ patch.source_start = 2
    /\ patch.target_start = 1
    /\ Len(hunk.lines) = 3
    /\ hunk.lines[1].old_line_number = 2
    /\ hunk.lines[2].new_line_number = 1
    /\ hunk.lines[3].old_line_number = 3
    /\ hunk.lines[3].new_line_number = 2

\* ------------------- one reviewer, several analyze_file calls, one tool
\* The cache keys f"{file_path}:{start_line}:{end_line}" of the calls.
CacheKeys == {"util.py:1:2", "util.py:None:None"}

InitSessions ==
    /\ LoopIdle
    /\ PlacementIdle
    /\ PublishIdle
    /\ RunIdle
    /\ ManagerIdle
    /\ hash_seed = <<>>
    /\ SuggestionIdle
    /\ patch = NoPatch
    /\ SessionIdle

SessionFrame == <<loopVars, placementVars, publishVars, runVars, managerVars,
                  suggestionVars, patch>>

\* analyze_file starts on the next file: context_history = [].
AnalyzeFile ==
    /\ ~session_open
    /\ sessions < MaxSessions
    /\ sessions' = sessions + 1
    /\ session_open' = TRUE
    /\ session_log' = <<>>
    /\ last_read' = NoRead
    /\ UNCHANGED <<_file_cache, SessionFrame>>

\* The loop executes a get_file_content call and logs it. The tool answers
\* from _file_cache when the key is there; otherwise it fetches the file and,
\* when that succeeds, stores the content under the key.
GetFileContent(cache_key, found) ==
    /\ session_open
    /\ Len(session_log) < MaxCalls
    /\ IF cache_key \in DOMAIN _file_cache
       THEN /\ found
            /\ last_read' = [key |-> cache_key, hit |-> TRUE,
                              cached_in |-> _file_cache[cache_key]]
            /\ UNCHANGED _file_cache
       ELSE /\ last_read' = [key |-> cache_key, hit |-> FALSE, cached_in |-> 0]
            /\ _file_cache' =
                   IF found
                   THEN [k \in DOMAIN _file_cache \cup {cache_key} |->
                            IF k = cache_key THEN sessions ELSE _file_cache[k]]
                   ELSE _file_cache
    /\ session_log' = Append(session_log, [key |-> cache_key, success |-> found])
    /\ UNCHANGED <<sessions, session_open, SessionFrame>>

\* analyze_file returns: its context_history is gone with the call.
ReturnAnalysis ==
    /\ session_open
    /\ session_open' = FALSE
    /\ session_log' = <<>>
    /\ UNCHANGED <<_file_cache, sessions, last_read, SessionFrame>>

NextSessions ==
    \/ AnalyzeFile
    \/ \E cache_key \in CacheKeys, found \in BOOLEAN : GetFileContent(cache_key, found)
    \/ ReturnAnalysis

SpecSessions == InitSessions /\ [][NextSessions]_vars

\* C27: a session that has made no call yet has an empty context log and
\* finds the cache empty, and a call answered from the cache reads an entry
\* stored during the same session.
C27_SessionOwnsCacheAndLog ==
    /\ (session_open /\ last_read = NoRead) =>
          /\ session_log = <<>>
          /\ DOMAIN _file_cache = {}
    /\ last_read.hit => last_read.cached_in = sessions

\* ------------------------------------ the suggestion block of a comment
\* A string is the sequence of its lines (what split("\n") gives); a line is
\* code, a code-fence marker or blank, with the width of its leading
\* whitespace (for a blank line, of all of it) and, for telling lines apart,
\* its position in the suggestion.
EmptyLine == [kind |-> "blank", ws |-> 0, text |-> 0]
EmptyString == <<EmptyLine>>

IsBlank(ln) == ln.kind = "blank"

LineShapes ==
    {[kind |-> "code", ws |-> w] : w \in 0..MaxIndent}
    \cup {[kind |-> "blank", ws |-> w] : w \in 0..1}
    \cup {[kind |-> "fence", ws |-> 0]}

Suggestions ==
    {[i \in 1..Len(shape) |->
         IF shape[i].kind = "blank"
         THEN [kind |-> "blank", ws |-> shape[i].ws, text |-> 0]
         ELSE [kind |-> shape[i].kind, ws |-> shape[i].ws, text |-> i]] :
        shape \in SeqsUpTo(LineShapes, MaxSuggestionLines) \ {<<>>}}

\* str.rstrip() and str.strip() on the lines of a string: the blank lines at
\* the end go, and for strip the ones at the start and the leading
\* whitespace of the first line left.
RECURSIVE rstrip(_)
rstrip(lines) ==
    IF lines = <<>> THEN EmptyString
    ELSE IF IsBlank(lines[Len(lines)]) THEN rstrip(SubSeq(lines, 1, Len(lines) - 1))
    ELSE lines

RECURSIVE lstrip(_)
lstrip(lines) ==
    IF lines = <<>> THEN EmptyString
    ELSE IF IsBlank(Head(lines)) THEN lstrip(Tail(lines))
    ELSE <<[Head(lines) EXCEPT !.ws = 0]>> \o Tail(lines)

strip(lines) == IF rstrip(lines) = EmptyString THEN EmptyString ELSE lstrip(rstrip(lines))

\* "\n".join(lines) of a list that can be empty.
join(lines) == IF lines = <<>> THEN EmptyString ELSE lines

\* _clean_suggestion
_clean_suggestion(text) ==
    IF text = EmptyString THEN text
    ELSE LET cleaned == strip(text)
             opened == IF Head(cleaned).kind = "fence" THEN Tail(cleaned) ELSE cleaned
             closed == IF opened # <<>> /\ opened[Len(opened)].kind = "fence"
                       THEN SubSeq(opened, 1, Len(opened) - 1) ELSE opened
         IN IF Head(cleaned).kind = "fence" THEN strip(join(closed)) ELSE cleaned

\* _leading_whitespace, as a width.
_leading_whitespace(ln) == ln.ws

\* _reindent_suggestion, base_indent given by its width.
_reindent_suggestion(text, base_len) ==
    LET non_empty == SelectSeq(text, LAMBDA ln : ~IsBlank(ln))
    IN IF non_empty = <<>> THEN text
       ELSE LET min_indent == Min({non_empty[i].ws : i \in 1..Len(non_empty)})
                reindented == [i \in 1..Len(text) |->
                                  IF IsBlank(text[i]) THEN text[i]
                                  ELSE [text[i] EXCEPT !.ws = base_len + (@ - min_indent)]]
                normalized == rstrip(reindented)
                filtered == SelectSeq(normalized,
                                LAMBDA ln : ~(~IsBlank(ln)
                                              /\ _leading_whitespace(ln) < base_len))
            IN rstrip(join(filtered))

InitSuggestion ==
    /\ LoopIdle
    /\ PlacementIdle
    /\ PublishIdle
    /\ RunIdle
    /\ ManagerIdle
    /\ hash_seed = <<>>
    /\ patch = NoPatch
    /\ SessionIdle
    /\ issue_suggestion \in Suggestions
    /\ ref_indent \in 0..MaxIndent
    /\ suggestion_block = NoBlock

\* The suggestion part of _create_comment_from_diff_lines.
ComposeSuggestionBlock ==
    /\ suggestion_block = NoBlock
    /\ suggestion_block' =
          IF issue_suggestion = EmptyString THEN [state |-> "omitted", lines |-> <<>>]
          ELSE LET raw_suggestion == _clean_suggestion(issue_suggestion)
               IN IF raw_suggestion = EmptyString
                  THEN [state |-> "omitted", lines |-> <<>>]
                  ELSE [state |-> "written",
                        lines |-> _reindent_suggestion(raw_suggestion, ref_indent)]
    /\ UNCHANGED <<loopVars, placementVars, publishVars, runVars, managerVars,
                   issue_suggestion, ref_indent, patch, sessionVars>>

NextSuggestion == ComposeSuggestionBlock

SpecSuggestion == InitSuggestion /\ [][NextSuggestion]_vars

\* ---- readers
CodeOf(text) == SelectSeq(text, LAMBDA ln : ln.kind = "code")
Fenced(text) == \E i \in 1..Len(text) : text[i].kind = "fence"

\* C28: for a suggestion with a non-blank line and no code fence, the block
\* holds every non-blank line of the suggestion, in order, each with the
\* reference indentation plus its own leading whitespace less the smallest
\* leading whitespace of the non-blank lines; the block does not end with
\* a blank line.
C28_RelativeIndentKept ==
    (suggestion_block # NoBlock /\ ~Fenced(issue_suggestion)
        /\ CodeOf(issue_suggestion) # <<>>) =>
        LET given == CodeOf(issue_suggestion)
            least == Min({given[i].ws : i \in 1..Len(given)})
            block == suggestion_block.lines
        IN /\ suggestion_block.state = "written"
           /\ CodeOf(block) =
                  [i \in 1..Len(given) |->
                      [given[i] EXCEPT !.ws = ref_indent + (@ - least)]]
           /\ ~IsBlank(block[Len(block)])

\* ---- C29
\* C29: post_review is invoked at most once in a run, and only when every
\* file's analysis is finished and the payload it is given is the one
\* prepare_review_data built from all analyses; a dry run never invokes it,
\* and without the invocation nothing is handed to GitHub (a run that
\* returns before the aggregation included).
C29_PublishOnceAfterAggregation ==
    /\ [][called' # called =>
             /\ called = "none"
             /\ called' = "post_review"
             /\ ~dry_run
             /\ run_pc = "posting"
             /\ \A f \in 1..Len(pr_files) : file_status[f] = "finished"
             /\ review_comments =
                    prepare_review_data(analyses, max_comments_per_file,
                                        min_confidence).comments]_vars
    /\ [][called = "post_review" =>
             UNCHANGED <<called, submitted, issue_comment, returned,
                         review_comments>>]_vars
    /\ [](dry_run => called = "none")
    /\ [](called = "none" => (submitted = <<>> /\ ~issue_comment))

\* A run over two files has returned after post_review handed comments to
\* GitHub.
C29_Witness ==
    /\ run_pc = "done"
    /\ Len(pr_files) = 2
    /\ called = "post_review"
    /\ submitted # <<>>
    /\ run_result = "True"

\* ------------------- one record through the resolver and the agentic path
AnchorPayloads ==
    {<<WithSide(r, s)>> : r \in ResolverRecords, s \in {"LEFT", "missing"}}

InitAnchors ==
    /\ LoopIdle
    /\ PublishIdle
    /\ RunIdle
    /\ AuxIdle
    /\ hunk \in Hunks
    /\ ai_response \in AnchorPayloads
    /\ issues = <<>>
    /\ comments = <<>>
    /\ processed = FALSE
    /\ matched = <<>>
    /\ line_numbers = <<>>
    /\ best_range = <<>>

NextAnchors ==
    \/ PlaceComment
    \/ CreateReviewAnalysisFromResponse

SpecAnchors == InitAnchors /\ [][NextAnchors]_vars

\* ---- readers
\* n is the number, on the comment's side, of a matched line of the kind the
\* comment is anchored on.
MatchedOnSide(c, n) ==
    \E i \in 1..Len(matched) :
        IF c.side = "RIGHT"
        THEN matched[i].type = "+" /\ matched[i].new_line_number = n
        ELSE matched[i].type = "-" /\ matched[i].old_line_number = n

\* C30: a comment with a start_line has start_line < line, in the resolver
\* path and in the agentic path; in the resolver path its two ends are on
\* one side and every integer from start_line to line is the new number of a
\* matched Added line (RIGHT) or the old number of a matched Removed line
\* (LEFT).
C30_RangeInsideMatchedRun ==
    /\ \A i \in 1..Len(outcome.comments) :
          outcome.comments[i].start_line # None =>
              outcome.comments[i].start_line < outcome.comments[i].line
    /\ \A i \in 1..Len(comments) :
          comments[i].start_line # None =>
              /\ comments[i].start_line < comments[i].line
              /\ comments[i].side \in {"LEFT", "RIGHT"}
              /\ comments[i].start_side = comments[i].side
              /\ \A n \in comments[i].start_line..comments[i].line :
                    MatchedOnSide(comments[i], n)

\* Both paths have run: the resolver anchored the record on two Removed
\* lines of a hunk that also holds a line of another kind, and the agentic
\* comment has a start_line.
C30_Witness ==
    /\ processed
    /\ Finalized
    /\ Len(comments) = 1
    /\ comments[1].side = "LEFT"
    /\ comments[1].start_line # None
    /\ comments[1].line - comments[1].start_line = 1
    /\ \E i \in 1..Len(hunk.lines) : hunk.lines[i].type # "-"
    /\ Len(outcome.comments) = 1
    /\ outcome.comments[1].start_line # None

====
